---- MODULE Spec2Model ----
(***************************************************************************)
(* A model of the exploralytics plotting helpers:                          *)
(*   - experimental/utils.py: identify_num_rows, highlight_bars_colors     *)
(*   - exploralytics/visualize/style.py: DEFAULT_STYLE, apply_style,       *)
(*     create_custom_style                                                 *)
(*   - exploralytics/visualize/visualizer.py: Visualizer                   *)
(* Python lists are sequences (index i of Python is index i+1 here),       *)
(* Python dicts are functions from key strings to values, None is the      *)
(* empty tuple and an optional value x is the one-element tuple <<x>>.     *)
(***************************************************************************)
EXTENDS Integers, Sequences, FiniteSets, TLC

VARIABLES
    \* identify_num_rows: its arguments and its outcome
    columns, desired_num_col, num_rows,
    \* highlight_bars_colors: its arguments and its outcome
    highlight_top_n, highlight_low_n, data_length, colors,
    \* the heap of style dicts (address = index) and of the dicts nested in them
    styles, nested,
    \* per caller: the custom style and the Visualizer it was handed
    custom, viz,
    \* the figure being styled, and the call of create_custom_style or
    \* apply_style just made (its arguments and result), if it was the last step
    fig, last,
    \* the chart builders of experimental/visualizer.py and get_color_palette:
    \* the arguments and the outcome of one call of each
    histCall, hbarCall, corrCall, paletteCall

gridVars == <<columns, desired_num_col, num_rows>>
colorVars == <<highlight_top_n, highlight_low_n, data_length, colors>>
styleVars == <<styles, nested, custom, viz, fig, last>>
chartVars == <<histCall, hbarCall, corrCall, paletteCall>>
vars == <<gridVars, colorVars, styleVars, chartVars>>

\* ------------------------------------------------------------------ bounds

\* the longest list of plots handed to identify_num_rows
MaxItems == 8
\* the largest column count (desired_num_col ranges over -MaxCols..MaxCols)
MaxCols == 4
\* the largest number of bars
MaxLen == 3
\* the largest highlight count (n ranges over -MaxN..MaxN, so n > length occurs)
MaxN == 4
\* the most style dicts the heap holds, DEFAULT_STYLE included
MaxStyles == 3
\* the most numeric columns plot_distributions is given
MaxPlots == 2
\* the most calls of apply_style in a row with identical arguments
MaxApply == 2
\* the most columns of a dataframe handed to plot_histograms
MaxDfCols == 4
\* the most rows of a dataframe handed to plot_hbar
MaxRows == 3
\* the largest top_n handed to plot_hbar
MaxTop == 2
\* the most numeric columns of a dataframe handed to the correlation plots
MaxCorrCols == 3
\* the largest num_colors handed to get_color_palette
MaxColors == 17

\* ------------------------------------------------------ Python primitives

None == <<>>
Some(x) == <<x>>

\* a call that has not returned yet
Pending == [raised |-> "Pending", value |-> None]
\* a call that returned v
Return(v) == [raised |-> "None", value |-> Some(v)]
\* a call that raised exception e
Raise(e) == [raised |-> e, value |-> None]

\* Python's a // b for b # 0: the floor of the quotient
PyFloorDiv(a, b) ==
    IF b > 0 THEN a \div b ELSE (-a) \div (-b)

\* Python's a % b for b # 0: the remainder has the sign of b
PyMod(a, b) == a - b * PyFloorDiv(a, b)

\* Python's min(a, b)
min(a, b) == IF a <= b THEN a ELSE b

\* Python's [x] * k: the empty list when k <= 0
Repeat(x, k) == IF k <= 0 THEN <<>> ELSE [i \in 1..k |-> x]

\* a slice bound b of a list of length len, as Python normalises it
SliceIndex(b, len) ==
    IF b < 0 THEN (IF len + b < 0 THEN 0 ELSE len + b)
    ELSE (IF b > len THEN len ELSE b)

\* Python's  lst[lo:hi] = new  with lo, hi given as written (not normalised):
\* the slice is replaced by new, whatever the two lengths are
SliceAssign(lst, lo, hi, new) ==
    LET l == SliceIndex(lo, Len(lst))
        h0 == SliceIndex(hi, Len(lst))
        h == IF h0 < l THEN l ELSE h0
    IN SubSeq(lst, 1, l) \o new \o SubSeq(lst, h + 1, Len(lst))

\* ------------------------------------------------------ identify_num_rows

\* identify_num_rows without the else branch of lines 29-30: plain floor division
identify_num_rows_floor(cols, desired) ==
    IF desired = 0 THEN Raise("ZeroDivisionError")
    ELSE Return(PyFloorDiv(Len(cols), desired))

\* identify_num_rows(columns, desired_num_col); the % raises on a zero divisor
identify_num_rows(cols, desired) ==
    IF desired = 0 THEN Raise("ZeroDivisionError")
    ELSE IF PyMod(Len(cols), desired) = 0
         THEN Return(PyFloorDiv(Len(cols), desired))
         ELSE Return(PyFloorDiv(Len(cols), desired) + 1)

GridInit ==
    /\ columns \in {[i \in 1..k |-> i] : k \in 0..MaxItems}
    /\ desired_num_col \in (0 - MaxCols)..MaxCols
    /\ num_rows = Pending

\* the caller calls identify_num_rows on its arguments
CallIdentifyNumRows ==
    /\ num_rows = Pending
    /\ num_rows' = identify_num_rows(columns, desired_num_col)
    /\ UNCHANGED <<columns, desired_num_col>>

\* ---------------------------------------------------- highlight_bars_colors

\* the default grey of utils.py line 58
BaseColor == "#E5E4E2"
\* the colours a caller passes in a highlight tuple
HighlightColors == {"red", "blue"}
\* a highlight argument: None or the tuple (n, color)
HighlightSpecs ==
    {None} \cup {<<n, c>> : n \in (0 - MaxN)..MaxN, c \in HighlightColors}

\* Python's truth value of a tuple or None: false when empty
Truthy(t) == t # None

\* lines 61-63 without the min: colors[:n] = [color] * n
ApplyTop_unclamped(cs, top, len) ==
    IF Truthy(top)
    THEN SliceAssign(cs, 0, top[1], Repeat(top[2], top[1]))
    ELSE cs

\* lines 61-63: colors[:n] = [color] * min(n, data_length)
ApplyTop(cs, top, len) ==
    IF Truthy(top)
    THEN LET n == top[1]
             color == top[2]
         IN SliceAssign(cs, 0, n, Repeat(color, min(n, len)))
    ELSE cs

\* lines 66-68: colors[-n:] = [color] * min(n, data_length)
ApplyLow(cs, low, len) ==
    IF Truthy(low)
    THEN LET n == low[1]
             color == low[2]
         IN SliceAssign(cs, 0 - n, Len(cs), Repeat(color, min(n, len)))
    ELSE cs

\* highlight_bars_colors(highlight_top_n, highlight_low_n, data_length)
highlight_bars_colors(top, low, len) ==
    Return(ApplyLow(ApplyTop(Repeat(BaseColor, len), top, len), low, len))

ColorsInit ==
    /\ highlight_top_n \in HighlightSpecs
    /\ highlight_low_n \in HighlightSpecs
    /\ data_length \in 0..MaxLen
    /\ colors = Pending

\* the caller calls highlight_bars_colors on its arguments
CallHighlightBarsColors ==
    /\ colors = Pending
    /\ colors' = highlight_bars_colors(highlight_top_n, highlight_low_n, data_length)
    /\ UNCHANGED <<highlight_top_n, highlight_low_n, data_length>>


\* ------------------------------------------------------------ style dicts

\* dict.update / a keyword merge: the keys of b replace those of a
DictUpdate(a, b) ==
    [k \in DOMAIN a \cup DOMAIN b |-> IF k \in DOMAIN b THEN b[k] ELSE a[k]]

\* the module global DEFAULT_STYLE: the address of its dict in the heap
DEFAULT_STYLE == 1
\* the dict literals nested in DEFAULT_STYLE (lines 27-32 and 45-50)
DefaultMargins == [left |-> 50, right |-> 50, top |-> 80, bottom |-> 50]
DefaultLegendPosition ==
    [x |-> "1.02", y |-> "1", xanchor |-> "left", yanchor |-> "top"]
\* the dict literal of lines 15-51; margins and legend_position hold the
\* addresses (in nested) of the two dicts above
DefaultStyleDict ==
    [font_size |-> 12, font_family |-> "Arial, sans-serif", title_size |-> 16,
     title_x |-> "0.5", width |-> 800, height |-> 600,
     margins |-> 1,
     color_scale |-> "RdBu", background_color |-> "white",
     grid_color |-> "#E5E5E5",
     show_grid |-> TRUE, grid_width |-> 1,
     show_legend |-> TRUE,
     legend_position |-> 2]

\* the keys whose value is a nested dict
NestedKeys == {"margins", "legend_position"}

\* dict.copy(): a new dict at a fresh address with the same values; a value
\* that is the address of a nested dict is copied as that address
DictCopy(heap, addr) == Append(heap, heap[addr])

\* the callers of the library
Callers == {"a", "b"}

\* the keyword arguments callers pass to create_custom_style; a margins
\* override is a dict literal the caller builds (margin gives its contents)
Overrides ==
    { [kwargs |-> <<>>, margin |-> None],
      [kwargs |-> [font_size |-> 20], margin |-> None],
      [kwargs |-> [font_size |-> 14, show_grid |-> FALSE], margin |-> None],
      [kwargs |-> [margins |-> 0], margin |-> Some([top |-> 100])] }

\* kwargs as the call receives them: a margins override is the address a of
\* the caller's dict
Kwargs(o, a) ==
    IF o.margin = None THEN o.kwargs ELSE DictUpdate(o.kwargs, [margins |-> a])

\* lines 195-196 with update merging nested dicts key by key into the copy
\* (a deep merge) instead of replacing them
create_custom_style_deep(st, ns, kwargs) ==
    LET copied == DictCopy(st, DEFAULT_STYLE)
        addr == Len(copied)
        deep == {k \in DOMAIN kwargs \cap NestedKeys : k \in DOMAIN copied[addr]}
        flat == [k \in DOMAIN kwargs \ deep |-> kwargs[k]]
        merged(k) == DictUpdate(ns[copied[addr][k]], ns[kwargs[k]])
        ns2 == [i \in 1..(Len(ns) + Cardinality(deep)) |->
                   IF i <= Len(ns) THEN ns[i]
                   ELSE merged(CHOOSE k \in deep : TRUE)]
        fresh == [k \in deep |-> Len(ns) + 1]
    IN [styles |-> [copied EXCEPT ![addr] =
                        DictUpdate(DictUpdate(@, flat), fresh)],
        nested |-> ns2,
        ret |-> addr]

\* create_custom_style(**kwargs), lines 195-197, on the heap (st, ns): the
\* heap after the call and the address returned
create_custom_style(st, ns, kwargs) ==
    LET copied == DictCopy(st, DEFAULT_STYLE)
        addr == Len(copied)
    IN [styles |-> [copied EXCEPT ![addr] = DictUpdate(@, kwargs)],
        nested |-> ns,
        ret |-> addr]

\* the addresses of the style dicts caller c was handed
Held(c) ==
    (IF custom[c] = None THEN {} ELSE {custom[c][1]})
        \cup (IF viz[c] = None THEN {} ELSE {viz[c][1].style})

\* caller c, who holds no custom style yet, calls
\* create_custom_style(**kwargs) and keeps the result
CreateCustomStyle(c, o) ==
    /\ custom[c] = None
    /\ Len(styles) < MaxStyles
    /\ LET ns == IF o.margin = None THEN nested ELSE Append(nested, o.margin[1])
           kwargs == Kwargs(o, Len(ns))
           r == create_custom_style(styles, ns, kwargs)
       IN /\ styles' = r.styles
          /\ nested' = r.nested
          /\ custom' = [custom EXCEPT ![c] = Some(r.ret)]
          /\ last' = [op |-> "create_custom_style", kwargs |-> kwargs,
                      given |-> o.margin, ret |-> r.ret]
    /\ UNCHANGED <<viz, fig>>
    /\ UNCHANGED <<gridVars, colorVars, chartVars>>

\* the top-level assignments callers make to a style they hold
KeyEdits == {[key |-> "font_size", value |-> 20]}
\* the assignments callers make inside a nested dict of a style they hold
NestedEdits ==
    << [key |-> "margins", sub |-> "top", value |-> 0],
       [key |-> "legend_position", sub |-> "xanchor", value |-> "right"] >>

\* caller c runs  style[key] = value  on a style it holds
SetStyleKey(c, a, e) ==
    /\ a \in Held(c)
    /\ styles[a][e.key] # e.value
    /\ styles' = [styles EXCEPT ![a] = DictUpdate(@, e.key :> e.value)]
    /\ last' = [op |-> "none"]
    /\ UNCHANGED <<nested, custom, viz, fig>>
    /\ UNCHANGED <<gridVars, colorVars, chartVars>>

\* caller c runs  style[key][sub] = value  on a style it holds
SetNestedKey(c, a, i) ==
    /\ a \in Held(c)
    /\ LET e == NestedEdits[i] IN
       /\ e.sub \in DOMAIN nested[styles[a][e.key]]
       /\ nested[styles[a][e.key]][e.sub] # e.value
       /\ nested' = [nested EXCEPT ![styles[a][e.key]] =
                         DictUpdate(@, e.sub :> e.value)]
    /\ last' = [op |-> "none"]
    /\ UNCHANGED <<styles, custom, viz, fig>>
    /\ UNCHANGED <<gridVars, colorVars, chartVars>>


\* -------------------------------------------------------------- figures

\* go.Figure() / make_subplots(rows, cols): a figure with n x and y axes and
\* nothing set in its layout (an unset property is empty)
EmptyFigure(n) ==
    [title |-> <<>>, height |-> None, width |-> None, margin |-> <<>>,
     paper_bgcolor |-> None, plot_bgcolor |-> None, font |-> <<>>,
     showlegend |-> None, legend |-> <<>>,
     xaxes |-> [i \in 1..n |-> <<>>],
     yaxes |-> [i \in 1..n |-> <<>>]]

\* fig.update_layout(title=..., height=..., ...), lines 94-126: scalar
\* properties are set, dict-valued ones are updated recursively
update_layout(f, kw) ==
    [f EXCEPT
        !.title = [k \in DOMAIN @ \cup DOMAIN kw.title |->
                      IF k \notin DOMAIN kw.title THEN @[k]
                      ELSE IF k = "font" /\ k \in DOMAIN @
                           THEN DictUpdate(@[k], kw.title[k])
                           ELSE kw.title[k]],
        !.height = Some(kw.height),
        !.width = Some(kw.width),
        !.margin = DictUpdate(@, kw.margin),
        !.paper_bgcolor = Some(kw.paper_bgcolor),
        !.plot_bgcolor = Some(kw.plot_bgcolor),
        !.font = DictUpdate(@, kw.font),
        !.showlegend = Some(kw.showlegend),
        !.legend = DictUpdate(@, kw.legend)]

\* fig.update_xaxes(...), lines 129-136: every x axis of the figure is updated
update_xaxes(f, kw) ==
    [f EXCEPT !.xaxes = [i \in DOMAIN @ |-> DictUpdate(@[i], kw)]]

\* fig.update_yaxes(...), lines 138-145: every y axis of the figure is updated
update_yaxes(f, kw) ==
    [f EXCEPT !.yaxes = [i \in DOMAIN @ |-> DictUpdate(@[i], kw)]]

\* Python's  a or b  for an optional int a: a unless it is None or 0
PyOr(a, b) == IF a # None /\ a[1] # 0 THEN a[1] ELSE b

\* the keyword arguments of update_xaxes and update_yaxes, lines 130-135
AxisSettings(style) ==
    [showgrid |-> style.show_grid, gridwidth |-> style.grid_width,
     gridcolor |-> style.grid_color, zeroline |-> TRUE,
     zerolinewidth |-> 1, zerolinecolor |-> "black"]

\* the keyword arguments of update_layout, lines 95-126; style is the style
\* dict and ns the heap its nested dicts live in
LayoutSettings(title, style, ns, height, width) ==
    [title |-> [text |-> title, x |-> style.title_x, xanchor |-> "center",
                font |-> [size |-> style.title_size,
                          family |-> style.font_family]],
     height |-> PyOr(height, style.height),
     width |-> PyOr(width, style.width),
     margin |-> ns[style.margins],
     paper_bgcolor |-> style.background_color,
     plot_bgcolor |-> style.background_color,
     font |-> [size |-> style.font_size, family |-> style.font_family],
     showlegend |-> style.show_legend,
     legend |-> ns[style.legend_position]]

\* apply_style making room for the title on a figure that already has one:
\* the height it sets is the height asked for plus the title size
apply_style_grow(f, title, style, ns, height, width) ==
    LET kw == LayoutSettings(title, style, ns, height, width)
        room == IF "text" \in DOMAIN f.title THEN style.title_size ELSE 0
    IN update_yaxes(
           update_xaxes(
               update_layout(f, [kw EXCEPT !.height = @ + room]),
               AxisSettings(style)),
           AxisSettings(style))

\* apply_style(fig, title, style, height, width), lines 94-147: the figure
\* after the call
apply_style(f, title, style, ns, height, width) ==
    update_yaxes(
        update_xaxes(
            update_layout(f, LayoutSettings(title, style, ns, height, width)),
            AxisSettings(style)),
        AxisSettings(style))

\* the titles and the height / width arguments callers pass
Titles == {"My Plot"}
OptionalSizes == {None, Some(0), Some(400)}

\* caller c creates an empty figure with go.Figure()
NewFigure(c) ==
    /\ fig' = Some(EmptyFigure(1))
    /\ last' = [op |-> "none"]
    /\ UNCHANGED <<styles, nested, custom, viz>>
    /\ UNCHANGED <<gridVars, colorVars, chartVars>>

\* caller c calls apply_style(fig, title, style, height, width) on the figure
\* with a style it holds or with DEFAULT_STYLE itself; last counts the calls
\* made in a row with identical arguments and keeps the figure after the first
ApplyStyle(c, title, a, height, width) ==
    /\ fig # None
    /\ a \in Held(c) \cup {DEFAULT_STYLE}
    /\ LET args == <<title, a, height, width>>
           again == last.op = "apply_style" /\ last.args = args
           styled == apply_style(fig[1], title, styles[a], nested, height, width)
       IN /\ again => last.n < MaxApply
          /\ fig' = Some(styled)
          /\ last' = [op |-> "apply_style", args |-> args,
                      n |-> IF again THEN last.n + 1 ELSE 1,
                      once |-> IF again THEN last.once ELSE styled]
    /\ UNCHANGED <<styles, nested, custom, viz>>
    /\ UNCHANGED <<gridVars, colorVars, chartVars>>

\* ----------------------------------------------------------- Visualizer

\* validate_color(color) of visualize/utils.py: whether color is a hex code
validate_color(color) == color \in {"#94C973", "#006400"}

\* the colours callers construct a Visualizer with
VisualizerColors == {"#94C973", "green"}

\* Python's truth value of an optional dict argument: false when None or empty
DictTruthy(st, arg) == arg # None /\ DOMAIN st[arg[1]] # {}

\* caller c, who has no Visualizer yet, constructs
\* Visualizer(color=color, style=style), lines 78-86, with the default height
\* and width; style is None or a style the caller holds
NewVisualizer(c, color, style) ==
    /\ UNCHANGED <<gridVars, colorVars, chartVars>>
    /\ viz[c] = None
    /\ style # None => style[1] \in Held(c)
    /\ IF ~validate_color(color)
       THEN \* raise ValueError: no Visualizer is constructed
            UNCHANGED <<styles, nested, custom, viz, fig, last>>
       ELSE IF DictTruthy(styles, style)
       THEN /\ viz' = [viz EXCEPT ![c] =
                          Some([color |-> color, height |-> 600, width |-> 800,
                                style |-> style[1]])]
            /\ last' = [op |-> "none"]
            /\ UNCHANGED <<styles, nested, custom, fig>>
       ELSE /\ Len(styles) < MaxStyles
            /\ styles' = DictCopy(styles, DEFAULT_STYLE)
            /\ viz' = [viz EXCEPT ![c] =
                          Some([color |-> color, height |-> 600, width |-> 800,
                                style |-> Len(styles')])]
            /\ last' = [op |-> "none"]
            /\ UNCHANGED <<nested, custom, fig>>

\* identify_plot_layout(n) of visualize/utils.py: the (rows, cols) grids that
\* hold n plots with no empty row
identify_plot_layout(n) ==
    {<<r, k>> : r \in 1..n, k \in 1..n} \cap
        {g \in (1..n) \X (1..n) : g[1] * g[2] >= n /\ (g[1] - 1) * g[2] < n}

\* the subtitles callers pass to plot_distributions
Subtitles == {"", "Dataset Overview"}

\* caller c calls viz.plot_distributions(data, title, subtitle) on data with
\* n numeric columns, lines 124-188: a fresh subplot figure, styled with the
\* Visualizer's style, a height of 300 per row and the Visualizer's width
PlotDistributions(c, n, title, subtitle) ==
    /\ viz[c] # None
    /\ \E g \in identify_plot_layout(n) :
         LET n_rows == g[1]
             n_cols == g[2]
             total_height == n_rows * 300
             title_text == IF subtitle # ""
                           THEN title \o "<br><sup>" \o subtitle \o "</sup>"
                           ELSE title
             self == viz[c][1]
         IN /\ fig' = Some(apply_style(EmptyFigure(n_rows * n_cols), title_text,
                                       styles[self.style], nested,
                                       Some(total_height), Some(self.width)))
            /\ last' = [op |-> "none"]
    /\ UNCHANGED <<styles, nested, custom, viz>>
    /\ UNCHANGED <<gridVars, colorVars, chartVars>>

StyleInit ==
    /\ styles = <<DefaultStyleDict>>
    /\ nested = <<DefaultMargins, DefaultLegendPosition>>
    /\ custom = [c \in Callers |-> None]
    /\ viz = [c \in Callers |-> None]
    /\ fig = None
    /\ last = [op |-> "none"]

\* ------------------------------------------------- experimental Visualizer

\* the Visualizer of experimental/visualizer.py with its default arguments,
\* lines 31-44
Self == [color |-> "#94C973", height |-> 768, width |-> 1366,
         template |-> "plotly_white", colorscale |-> "Earth"]

\* a call not made
Idle == [op |-> "idle"]

\* the i-th column name of a dataframe
ColumnName(i) == "c" \o ToString(i)

\* the dtypes of a column: two numeric ones, one of them outside the list of
\* line 87, and a non-numeric one
Dtypes == {"int64", "float32", "object"}
\* the row counts of a dataframe
RowCounts == {0, 2}
\* the dataframes handed to plot_histograms: the dtype of each column (in
\* order) and the number of rows
HistFrames ==
    {[dtypes |-> d, rows |-> r] :
        d \in UNION {[1..k -> Dtypes] : k \in 0..MaxDfCols}, r \in RowCounts}

\* lines 86-89: the columns plot_histograms draws, as column indices
NumericalColumns(df, specific_cols) ==
    LET listed(i) == df.dtypes[i] \in {"int64", "float64"}
        number(i) == df.dtypes[i] \in {"int64", "float32", "float64"}
    IN IF Len(specific_cols) >= 1
       THEN SelectSeq(specific_cols, listed)
       ELSE SelectSeq([i \in 1..Len(df.dtypes) |-> i], number)

\* make_subplots(rows, cols) of plotly: the grid, or ValueError unless both
\* counts are positive
make_subplots(rows, cols) ==
    IF rows <= 0 \/ cols <= 0 THEN Raise("ValueError")
    ELSE Return([rows |-> rows, cols |-> cols, traces |-> <<>>])

\* lines 103-104 with the row and column counted from 0
position_from_zero(index, num_cols) ==
    [row |-> PyFloorDiv(index, num_cols), col |-> PyMod(index, num_cols)]

\* lines 103-104: the 1-based subplot position of the index-th column
position(index, num_cols) ==
    [row |-> PyFloorDiv(index, num_cols) + 1,
     col |-> PyMod(index, num_cols) + 1]

\* lines 101-129: one histogram per column at its position, with the mean
\* and median lines asked for
Histograms(numerical_columns, num_cols, show_mean, show_median) ==
    [k \in 1..Len(numerical_columns) |->
        [name |-> ColumnName(numerical_columns[k]),
         row |-> position(k - 1, num_cols).row,
         col |-> position(k - 1, num_cols).col,
         vlines |-> (IF show_mean THEN <<"solid">> ELSE <<>>)
                       \o (IF show_median THEN <<"dot">> ELSE <<>>)]]

\* plot_histograms(df, specific_cols, num_cols, title, subtitle, show_mean,
\* show_median), lines 85-142
plot_histograms(df, specific_cols, num_cols, title, subtitle, show_mean, show_median) ==
    LET numerical_columns == NumericalColumns(df, specific_cols)
        rows == identify_num_rows(numerical_columns, num_cols)
        grid == make_subplots(rows.value[1], num_cols)
    IN IF rows.raised # "None" THEN rows
       ELSE IF grid.raised # "None" THEN grid
       ELSE Return([grid.value[1] EXCEPT
                !.traces = Histograms(numerical_columns, num_cols,
                                      show_mean, show_median)]
              @@ [title_text |-> title \o "<br><sup>" \o subtitle \o "<sup>",
                  showlegend |-> FALSE, height |-> Self.height,
                  width |-> Self.width, title_x |-> "0.5",
                  template |-> Self.template])

\* the arguments of a plot_histograms call: any dataframe, no column list or
\* the list of all its columns, and any column count
HistInit ==
    \E df \in HistFrames, listed \in BOOLEAN,
       num_cols \in (0 - MaxCols)..MaxCols,
       show_mean \in BOOLEAN, show_median \in BOOLEAN :
        histCall = [op |-> "plot_histograms", df |-> df,
                    specific_cols |-> IF listed
                                      THEN [i \in 1..Len(df.dtypes) |-> i]
                                      ELSE <<>>,
                    num_cols |-> num_cols,
                    show_mean |-> show_mean, show_median |-> show_median,
                    ret |-> Pending]

\* the caller calls plot_histograms with the default title and subtitle
PlotHistograms ==
    /\ histCall # Idle
    /\ histCall.ret = Pending
    /\ histCall' = [histCall EXCEPT !.ret =
          plot_histograms(histCall.df, histCall.specific_cols,
                          histCall.num_cols,
                          "How distributed the numerical values are?",
                          "Histogram of each column with numerical data type",
                          histCall.show_mean, histCall.show_median)]
    /\ UNCHANGED <<gridVars, colorVars, styleVars, hbarCall, corrCall, paletteCall>>

\* the category and value columns of the dataframes handed to plot_hbar
Categories == {"x", "y"}
Values == {1, 2}
HbarFrames ==
    UNION {[1..k -> [cat : Categories, val : Values]] : k \in 0..MaxRows}

\* Python's truth value of an optional int: false for None and for 0
IntTruthy(o) == o # None /\ o[1] # 0

\* the orders a descending sort by the column `by` can leave the rows in: the
\* order of rows with equal keys is not specified
SortDescending(rows, by) ==
    LET n == Len(rows)
        orders == {p \in [1..n -> 1..n] :
                     /\ \A i, j \in 1..n : i # j => p[i] # p[j]
                     /\ \A i \in 1..n : i < n =>
                            rows[p[i]][by] >= rows[p[i + 1]][by]}
    IN {[i \in 1..n |-> rows[p[i]]] : p \in orders}

\* line 361, df[x_col].value_counts().rename_axis(x_col).reset_index(
\* name='Count'): one row per category present, most frequent first
value_counts(df) ==
    LET present == {df[i].cat : i \in DOMAIN df}
        k == Cardinality(present)
        table == CHOOSE t \in [1..k -> present] :
                    \A i, j \in 1..k : i # j => t[i] # t[j]
    IN SortDescending(
          [i \in 1..k |->
              [cat |-> table[i],
               Count |-> Cardinality({r \in DOMAIN df : df[r].cat = table[i]})]],
          "Count")

\* line 387, df.sort_values(y_col, ascending=False)
sort_values(df, y_col) == SortDescending(df, y_col)

\* DataFrame.head(n): the first n rows, or all but the last -n for n < 0
head(rows, n) ==
    LET len == Len(rows)
        stop == IF n >= 0 THEN min(n, len)
                ELSE (IF len + n < 0 THEN 0 ELSE len + n)
    IN SubSeq(rows, 1, stop)

\* Series.mean() as the pair (sum, count); the count 0 stands for NaN
RECURSIVE Sum(_)
Sum(xs) == IF xs = <<>> THEN 0 ELSE Head(xs) + Sum(Tail(xs))
mean(xs) == [sum |-> Sum(xs), count |-> Len(xs)]

\* lines 367-368 and 392-393: the marker colour of the bars, one colour for
\* all of them or the list highlight_bars_colors computes
BarColors(top, low, len) ==
    IF Truthy(top) \/ Truthy(low)
    THEN LET cs == highlight_bars_colors(top, low, len)
         IN [array |-> TRUE, raised |-> cs.raised,
             value |-> IF cs.raised = "None" THEN cs.value[1] ELSE <<>>]
    ELSE [array |-> FALSE, raised |-> "None", value |-> <<Self.color>>]

\* lines 371-436 for the rows plot_data: the bars, the mean line and the layout
BarFigure(plot_data, x_col, y_col, title, subtitle, add_hline, bar_colors) ==
    LET x == [i \in DOMAIN plot_data |->
                IF y_col = None THEN plot_data[i].Count ELSE plot_data[i].val]
    IN [y |-> [i \in DOMAIN plot_data |-> plot_data[i].cat],
        x |-> x,
        orientation |-> "h",
        marker_color |-> [array |-> bar_colors.array, value |-> bar_colors.value],
        vlines |-> IF add_hline THEN <<mean(x)>> ELSE <<>>,
        title_text |-> title \o "<br><sup>" \o subtitle \o "</sup>",
        title_x |-> "0.5", showlegend |-> FALSE,
        height |-> Self.height, width |-> Self.width,
        template |-> Self.template,
        xaxis |-> [title |-> IF y_col = None THEN "Count" ELSE y_col[1]],
        yaxis |-> [title |-> x_col, autorange |-> "reversed"]]

\* plot_hbar(df, x_col, y_col, title, subtitle, top_n, add_hline,
\* highlight_top_n, highlight_low_n), lines 356-436: the outcomes the call
\* can have, one per order the sort can produce
plot_hbar(df, x_col, y_col, title, subtitle, top_n, add_hline, top, low) ==
    LET sorted == IF y_col = None THEN value_counts(df)
                  ELSE sort_values(df, y_col[1])
        Build(rows) ==
            LET plot_data == IF IntTruthy(top_n) THEN head(rows, top_n[1])
                             ELSE rows
                bar_colors == BarColors(top, low, Len(plot_data))
            IN IF bar_colors.raised # "None" THEN Raise(bar_colors.raised)
               ELSE Return(BarFigure(plot_data, x_col, y_col, title, subtitle,
                                     add_hline, bar_colors))
    IN {Build(rows) : rows \in sorted}

\* the highlight arguments handed to plot_hbar
HbarTops == {None, <<1, "red">>}
HbarLows == {None, <<0, "blue">>, <<1, "blue">>}

\* the arguments of a plot_hbar call
HbarInit ==
    \E df \in HbarFrames, y_col \in {None, Some("val")},
       top_n \in {None} \cup {Some(n) : n \in (0 - 1)..MaxTop},
       add_hline \in BOOLEAN, top \in HbarTops, low \in HbarLows :
        hbarCall = [op |-> "plot_hbar", df |-> df, x_col |-> "cat",
                    y_col |-> y_col, top_n |-> top_n, add_hline |-> add_hline,
                    highlight_top_n |-> top, highlight_low_n |-> low,
                    ret |-> Pending]

\* the caller calls plot_hbar with the default title and subtitle
PlotHbar ==
    /\ hbarCall # Idle
    /\ hbarCall.ret = Pending
    /\ \E ret \in plot_hbar(hbarCall.df, hbarCall.x_col, hbarCall.y_col,
                            "How distributed are the categories?",
                            "Horizontal bar plot of categories",
                            hbarCall.top_n, hbarCall.add_hline,
                            hbarCall.highlight_top_n, hbarCall.highlight_low_n) :
          hbarCall' = [hbarCall EXCEPT !.ret = ret]
    /\ UNCHANGED <<gridVars, colorVars, styleVars, histCall, corrCall, paletteCall>>

\* ------------------------------------------------------ correlation plots

\* a float is the number of its thousandths, Some(t), or NaN, None
NaN == None
\* the correlations of two different non-constant columns, in thousandths
CorrValues == {0 - 4, 456, 1000}
\* the unordered pairs of the columns 1..k
Pairs(k) == {q \in (1..k) \X (1..k) : q[1] < q[2]}
\* the dataframes handed to the correlation plots: k numeric columns, the
\* constant ones among them, and the correlation of each pair of columns
CorrFrames ==
    UNION {[k : {k}, constant : SUBSET (1..k), r : [Pairs(k) -> CorrValues]] :
              k \in 1..MaxCorrCols}

\* df.corr(): 1 on the diagonal, symmetric, and NaN for a constant column
corr(df) ==
    [i \in 1..df.k |-> [j \in 1..df.k |->
        IF i \in df.constant \/ j \in df.constant THEN NaN
        ELSE IF i = j THEN Some(1000)
        ELSE Some(df.r[IF i < j THEN <<i, j>> ELSE <<j, i>>])]]

\* a float of two decimals: its sign and the number of its hundredths
\* round(t / 1000, 2), to the nearest hundredth, a tie to the even one; the
\* sign is kept, so -0.004 becomes -0.0
Round2(t) ==
    LET a == IF t < 0 THEN 0 - t ELSE t
        q == a \div 10
        r == a % 10
    IN [neg |-> t < 0,
        h |-> IF r > 5 \/ (r = 5 /\ q % 2 = 1) THEN q + 1 ELSE q]

\* f"{v:.2f}" of a float of two decimals
Format2(v) ==
    (IF v.neg THEN "-" ELSE "") \o ToString(v.h \div 100) \o "."
        \o ToString((v.h % 100) \div 10) \o ToString(v.h % 10)

\* str(v) of a float of two decimals: the shortest digits that read back
Repr(v) ==
    (IF v.neg THEN "-" ELSE "") \o ToString(v.h \div 100) \o "."
        \o (IF v.h % 100 = 0 THEN "0"
            ELSE IF v.h % 10 = 0 THEN ToString((v.h % 100) \div 10)
            ELSE ToString((v.h % 100) \div 10) \o ToString(v.h % 10))

\* float(text) for the text of a float of two decimals between -1 and 1
float(text) ==
    CHOOSE v \in [neg : BOOLEAN, h : 0..100] : Repr(v) = text

\* line 172, .round(2) of a matrix
round(matrix) ==
    [i \in DOMAIN matrix |-> [j \in DOMAIN matrix[i] |->
        IF matrix[i][j] = NaN THEN NaN ELSE Some(Round2(matrix[i][j][1]))]]

\* np.triu with k = 1: the upper triangle without the diagonal
triu_strict(i, j) == j > i
\* line 175, np.triu(np.ones_like(corr, dtype=bool)): true on and above the
\* diagonal
triu(i, j) == j >= i

\* line 178, corr.mask(mask): NaN where the mask is true
mask(matrix) ==
    [i \in DOMAIN matrix |-> [j \in DOMAIN matrix[i] |->
        IF triu(i, j) THEN NaN ELSE matrix[i][j]]]

\* lines 181-184
hovertext(df_mask) ==
    [i \in DOMAIN df_mask |-> [j \in DOMAIN df_mask[i] |->
        IF df_mask[i][j] # NaN
        THEN ColumnName(i) \o " vs " \o ColumnName(j) \o "<br>Correlation: "
                \o Format2(df_mask[i][j][1])
        ELSE ""]]

\* ff.create_annotated_heatmap(z, x, y, text): the heatmap and one annotation
\* per cell, row by row, whose text is str(z[n][m])
create_annotated_heatmap(z, x, y, text) ==
    LET k == Len(z)
    IN [z |-> z, x |-> x, y |-> y, text |-> text,
        annotations |-> [a \in 1..(k * k) |->
            LET n == ((a - 1) \div k) + 1
                m == ((a - 1) % k) + 1
            IN [x |-> x[m], y |-> y[n],
                text |-> IF z[n][m] = NaN THEN "nan" ELSE Repr(z[n][m][1])]]]

\* lines 221-229: the text of an annotation after the formatting loop
AnnotationText(text) ==
    IF text = "nan" THEN "" ELSE Format2(float(text))

\* plot_correlation_map(df, title, subtitle), lines 171-231
plot_correlation_map(df, title, subtitle) ==
    LET df_mask == mask(round(corr(df)))
        names == [i \in 1..df.k |-> ColumnName(i)]
        heatmap == create_annotated_heatmap(df_mask, names, names,
                                            hovertext(df_mask))
    IN Return([heatmap EXCEPT !.annotations =
                  [a \in DOMAIN heatmap.annotations |->
                      [heatmap.annotations[a] EXCEPT
                          !.text = AnnotationText(heatmap.annotations[a].text)]]]
              @@ [colorscale |-> Self.colorscale, hoverinfo |-> "text",
                  title_text |-> title \o "<br><sup>" \o subtitle \o "</sup>",
                  title_x |-> "0.5", width |-> Self.width,
                  height |-> Self.height, template |-> Self.template,
                  xaxis |-> [side |-> "bottom", showgrid |-> FALSE,
                             zeroline |-> FALSE, tickangle |-> 90],
                  yaxis |-> [showgrid |-> FALSE, zeroline |-> FALSE,
                             autorange |-> "reversed"]])

\* Series.sort_values(): the orders an ascending sort can leave the labelled
\* values in, NaN last; the order of equal values is not specified
SortAscending(series) ==
    LET n == Len(series)
        Before(a, b) == b.value = NaN \/ (a.value # NaN /\ a.value[1] <= b.value[1])
        orders == {p \in [1..n -> 1..n] :
                     /\ \A i, j \in 1..n : i # j => p[i] # p[j]
                     /\ \A i \in 1..n : i < n =>
                            Before(series[p[i]], series[p[i + 1]])}
    IN {[i \in 1..n |-> series[p[i]]] : p \in orders}

\* Series.drop(label) that drops nothing
drop_nothing(series, label) == series
\* line 267, Series.drop(label): the series without the entries of that label
drop(series, label) ==
    LET Kept(e) == e.label # label
    IN SelectSeq(series, Kept)

\* Python's max
max(a, b) == IF a >= b THEN a ELSE b

\* plot_correlation_with_target(df, target_column, title, subtitle), lines
\* 264-309: the outcomes the call can have, one per order of the sort
plot_correlation_with_target(df, target_column, title, subtitle) ==
    LET column == [i \in 1..df.k |->
                     [label |-> ColumnName(i),
                      value |-> corr(df)[i][target_column]]]
        Build(sorted) ==
            LET correlations == drop(sorted, ColumnName(target_column))
            IN Return(
                [y |-> [i \in DOMAIN correlations |-> correlations[i].label],
                 x |-> [i \in DOMAIN correlations |-> correlations[i].value],
                 orientation |-> "h",
                 marker_color |-> [i \in DOMAIN correlations |->
                     IF correlations[i].value # NaN
                            /\ correlations[i].value[1] < 0
                     THEN "#FF9999" ELSE "#2E75B6"],
                 text |-> [i \in DOMAIN correlations |->
                     IF correlations[i].value = NaN THEN "nan"
                     ELSE Format2(Round2(correlations[i].value[1]))],
                 textposition |-> "outside",
                 title_text |-> title \o "<br><sup>" \o subtitle \o "</sup>",
                 title_x |-> "0.5",
                 xaxis |-> [title |-> "Correlation Coefficient",
                            zeroline |-> TRUE, zerolinewidth |-> 2,
                            gridwidth |-> 1, tickformat |-> ".2f"],
                 yaxis |-> [title |-> "Features", autorange |-> "reversed"],
                 height |-> max(400, Len(correlations) * 30),
                 showlegend |-> FALSE, template |-> Self.template])
    IN {Build(sorted) : sorted \in SortAscending(column)}

\* the arguments of a call of one of the correlation plots: any dataframe and,
\* for the target plot, any of its columns as the target
CorrInit ==
    \E df \in CorrFrames :
        \/ corrCall = [op |-> "plot_correlation_map", df |-> df, ret |-> Pending]
        \/ \E target \in 1..df.k :
              corrCall = [op |-> "plot_correlation_with_target", df |-> df,
                          target_column |-> target, ret |-> Pending]

\* the caller calls plot_correlation_map with the default title and subtitle
PlotCorrelationMap ==
    /\ corrCall.op = "plot_correlation_map"
    /\ corrCall.ret = Pending
    /\ corrCall' = [corrCall EXCEPT !.ret =
          plot_correlation_map(corrCall.df,
              "How correlated the numerical values are?",
              "Correlation matrix of columns with numerical data type")]
    /\ UNCHANGED <<gridVars, colorVars, styleVars, histCall, hbarCall, paletteCall>>

\* the caller calls plot_correlation_with_target with the default title and
\* subtitle
PlotCorrelationWithTarget ==
    /\ corrCall.op = "plot_correlation_with_target"
    /\ corrCall.ret = Pending
    /\ \E ret \in plot_correlation_with_target(corrCall.df,
              corrCall.target_column,
              "How correlated the features are with the target?",
              "Correlation coefficient of each feature") :
          corrCall' = [corrCall EXCEPT !.ret = ret]
    /\ UNCHANGED <<gridVars, colorVars, styleVars, histCall, hbarCall, paletteCall>>

\* ------------------------------------------------------ get_color_palette

\* style.py lines 53-67
COLOR_PALETTES ==
    [categorical |-> <<"#636EFA", "#EF553B", "#00CC96", "#AB63FA",
                       "#FFA15A", "#19D3F3", "#FF6692", "#B6E880">>,
     sequential |-> <<"#F0F921", "#FABA39", "#F48849", "#DE5F65",
                      "#BC3F86", "#8C2981", "#4F127B", "#000004">>,
     diverging |-> <<"#2A788E", "#7AD4E6", "#B6EEF4", "#FFFFFF",
                     "#F8B7A1", "#E45641", "#B40426">>]

\* Python's list * k: the list k times over, the empty list when k <= 0
RepeatList(list, k) ==
    IF k <= 0 THEN <<>>
    ELSE [i \in 1..(k * Len(list)) |-> list[((i - 1) % Len(list)) + 1]]

\* Python's list[:stop]
SliceTo(list, stop) == SubSeq(list, 1, SliceIndex(stop, Len(list)))

\* get_color_palette with the palette repeated num_colors // len(palette)
\* times
get_color_palette_short(palette_type, num_colors) ==
    IF palette_type \notin DOMAIN COLOR_PALETTES THEN Raise("ValueError")
    ELSE LET palette == COLOR_PALETTES[palette_type]
         IN IF IntTruthy(num_colors)
            THEN Return(SliceTo(
                    RepeatList(palette, PyFloorDiv(num_colors[1], Len(palette))),
                    num_colors[1]))
            ELSE Return(palette)

\* get_color_palette(palette_type, num_colors), style.py lines 170-179
get_color_palette(palette_type, num_colors) ==
    IF palette_type \notin DOMAIN COLOR_PALETTES THEN Raise("ValueError")
    ELSE LET palette == COLOR_PALETTES[palette_type]
         IN IF IntTruthy(num_colors)
            THEN Return(SliceTo(
                    RepeatList(palette,
                               PyFloorDiv(num_colors[1], Len(palette)) + 1),
                    num_colors[1]))
            ELSE Return(palette)

\* the palette types a caller asks for, one of them unknown
PaletteTypes == {"categorical", "sequential", "diverging", "rainbow"}

\* the arguments of a get_color_palette call
PaletteInit ==
    \E palette_type \in PaletteTypes,
       num_colors \in {None} \cup {Some(n) : n \in (0 - MaxColors)..MaxColors} :
        paletteCall = [op |-> "get_color_palette",
                       palette_type |-> palette_type,
                       num_colors |-> num_colors, ret |-> Pending]

\* the caller calls get_color_palette on its arguments
GetColorPalette ==
    /\ paletteCall.op = "get_color_palette"
    /\ paletteCall.ret = Pending
    /\ paletteCall' = [paletteCall EXCEPT !.ret =
          get_color_palette(paletteCall.palette_type, paletteCall.num_colors)]
    /\ UNCHANGED <<gridVars, colorVars, styleVars, histCall, hbarCall, corrCall>>

\* no chart builder and no palette is asked for
ChartsIdle ==
    /\ histCall = Idle
    /\ hbarCall = Idle
    /\ corrCall = Idle
    /\ paletteCall = Idle

\* --------------------------------------------------------- specifications

GridIdle ==
    /\ columns = <<>>
    /\ desired_num_col = 1
    /\ num_rows = Pending

ColorsIdle ==
    /\ highlight_top_n = None
    /\ highlight_low_n = None
    /\ data_length = 0
    /\ colors = Pending

InitGrid == GridInit /\ ColorsIdle /\ StyleInit /\ ChartsIdle
NextGrid == CallIdentifyNumRows /\ UNCHANGED <<colorVars, styleVars, chartVars>>
SpecGrid == InitGrid /\ [][NextGrid]_vars

InitColors == ColorsInit /\ GridIdle /\ StyleInit /\ ChartsIdle
NextColors == CallHighlightBarsColors /\ UNCHANGED <<gridVars, styleVars, chartVars>>
SpecColors == InitColors /\ [][NextColors]_vars

InitHist ==
    /\ HistInit /\ hbarCall = Idle /\ corrCall = Idle /\ paletteCall = Idle
    /\ GridIdle /\ ColorsIdle /\ StyleInit
SpecHist == InitHist /\ [][PlotHistograms]_vars

InitHbar ==
    /\ HbarInit /\ histCall = Idle /\ corrCall = Idle /\ paletteCall = Idle
    /\ GridIdle /\ ColorsIdle /\ StyleInit
SpecHbar == InitHbar /\ [][PlotHbar]_vars

InitCorr ==
    /\ CorrInit /\ histCall = Idle /\ hbarCall = Idle /\ paletteCall = Idle
    /\ GridIdle /\ ColorsIdle /\ StyleInit
NextCorr == PlotCorrelationMap \/ PlotCorrelationWithTarget
SpecCorr == InitCorr /\ [][NextCorr]_vars

InitPalette ==
    /\ PaletteInit /\ histCall = Idle /\ hbarCall = Idle /\ corrCall = Idle
    /\ GridIdle /\ ColorsIdle /\ StyleInit
SpecPalette == InitPalette /\ [][GetColorPalette]_vars

\* one call of identify_num_rows, of plot_histograms or of plot_hbar
InitBuilders == InitGrid \/ InitHist \/ InitHbar
NextBuilders == NextGrid \/ PlotHistograms \/ PlotHbar
SpecBuilders == InitBuilders /\ [][NextBuilders]_vars

\* the addresses a style argument ranges over
Addresses == 1..MaxStyles
\* the style arguments of the Visualizer constructor
StyleArguments == {None} \cup {Some(a) : a \in Addresses}

\* the library as its callers use it: styles are created, handed out and
\* edited by their holders
Init == StyleInit /\ GridIdle /\ ColorsIdle /\ ChartsIdle
Next ==
    \/ \E c \in Callers, o \in Overrides : CreateCustomStyle(c, o)
    \/ \E c \in Callers, a \in Addresses, e \in KeyEdits : SetStyleKey(c, a, e)
    \/ \E c \in Callers, a \in Addresses, i \in DOMAIN NestedEdits :
          SetNestedKey(c, a, i)
    \/ \E c \in Callers, color \in VisualizerColors, style \in StyleArguments :
          NewVisualizer(c, color, style)
Spec == Init /\ [][Next]_vars

\* the caller that styles figures
Stylist == {"a"}

\* one caller creating styles, editing their top-level keys and applying them
\* to figures, with every height and width argument, and the figures
\* plot_distributions builds
NextFigure ==
    \/ \E c \in Stylist, o \in Overrides : CreateCustomStyle(c, o)
    \/ \E c \in Stylist, a \in Addresses, e \in KeyEdits : SetStyleKey(c, a, e)
    \/ \E c \in Stylist, color \in VisualizerColors, style \in StyleArguments :
          NewVisualizer(c, color, style)
    \/ \E c \in Stylist : NewFigure(c)
    \/ \E c \in Stylist, title \in Titles, a \in Addresses,
          height \in OptionalSizes, width \in OptionalSizes :
             ApplyStyle(c, title, a, height, width)
    \/ \E c \in Stylist, n \in 1..MaxPlots, title \in Titles,
          subtitle \in Subtitles :
             PlotDistributions(c, n, title, subtitle)
SpecFigure == Init /\ [][NextFigure]_vars

\* ------------------------------------------------- claims: GridLayout

\* C1: for item_count >= 0 and desired_columns >= 1, identify_num_rows returns
\* rows with rows * desired_columns >= item_count and
\* (rows - 1) * desired_columns < item_count (the smallest grid that fits).
C1_RowsMinimal ==
    (num_rows # Pending /\ desired_num_col >= 1) =>
        /\ num_rows.raised = "None"
        /\ num_rows.value[1] * desired_num_col >= Len(columns)
        /\ (num_rows.value[1] - 1) * desired_num_col < Len(columns)

\* C1 witness: a call returned for a list that does not divide evenly
C1_Witness ==
    /\ num_rows # Pending
    /\ desired_num_col = 3
    /\ Len(columns) = 7
    /\ num_rows = Return(3)

\* ---------------------------------------------- claims: ColorAssignment

\* the count of a highlight argument is not negative (None counts as absent)
NonNegative(h) == h = None \/ h[1] >= 0

\* the colours the contract describes: base everywhere, then the top range
\* [0, min(n, length)), then the low range [max(0, length - n), length)
InTop(i, top, len) == top # None /\ i < min(top[1], len)
InLow(i, low, len) == low # None /\ i >= len - low[1]
ExpectedColors(top, low, len) ==
    [k \in 1..len |->
        IF InLow(k - 1, low, len) THEN low[2]
        ELSE IF InTop(k - 1, top, len) THEN top[2]
        ELSE BaseColor]

\* C2: for every length >= 0 and every absent or present top and low spec with
\* n >= 0, highlight_bars_colors returns exactly `length` colours.
C2_LengthPreserved ==
    (colors # Pending /\ NonNegative(highlight_top_n) /\ NonNegative(highlight_low_n)) =>
        /\ colors.raised = "None"
        /\ Len(colors.value[1]) = data_length

\* C3: with only a low highlight (n, color), n >= 0, exactly the slots
\* [max(0, length - n), length) hold color and the others the base colour.
C3_LowOnly ==
    (/\ colors # Pending
     /\ highlight_top_n = None
     /\ highlight_low_n # None
     /\ NonNegative(highlight_low_n)) =>
        /\ colors.raised = "None"
        /\ colors.value[1] = ExpectedColors(None, highlight_low_n, data_length)

\* C4: with only a top highlight (n, color), n >= 0, exactly the slots
\* [0, min(n, length)) hold color and the others the base colour.
C4_TopOnly ==
    (/\ colors # Pending
     /\ highlight_low_n = None
     /\ highlight_top_n # None
     /\ NonNegative(highlight_top_n)) =>
        /\ colors.raised = "None"
        /\ Len(colors.value[1]) = data_length
        /\ \A i \in 0..(data_length - 1) :
              colors.value[1][i + 1] =
                  IF i < min(highlight_top_n[1], data_length)
                  THEN highlight_top_n[2] ELSE BaseColor

\* C4 witness: a top highlight of 2 red bars out of 3 has been applied
C4_Witness ==
    /\ highlight_low_n = None
    /\ highlight_top_n = <<2, "red">>
    /\ data_length = 3
    /\ colors = Return(<<"red", "red", BaseColor>>)

\* C5: with both highlights (counts >= 0) the top one is applied first and the
\* low one second: an index in the low range ends with the low colour, an
\* index only in the top range with the top colour, any other with the base.
C5_TopThenLow ==
    (/\ colors # Pending
     /\ highlight_top_n # None /\ NonNegative(highlight_top_n)
     /\ highlight_low_n # None /\ NonNegative(highlight_low_n)) =>
        /\ colors.raised = "None"
        /\ colors.value[1] =
              ExpectedColors(highlight_top_n, highlight_low_n, data_length)

\* C6: highlight_bars_colors fails with InvalidArgument, returning no colours,
\* whenever the count of the top spec or of the low spec is negative.
C6_NegativeCountRejected ==
    (colors # Pending /\ ~(NonNegative(highlight_top_n) /\ NonNegative(highlight_low_n))) =>
        /\ colors.raised = "InvalidArgument"
        /\ colors.value = None

\* ------------------------------------------------- claims: StyleResolver

\* a style dict with its nested dicts in place of their addresses
StyleValue(st, ns, a) ==
    [k \in DOMAIN st[a] |-> IF k \in NestedKeys THEN ns[st[a][k]] ELSE st[a][k]]

\* C7: DEFAULT_STYLE is read-only and callers only receive copies: whatever
\* callers create and whatever they change in the styles they were handed,
\* nested entries included, every key of DEFAULT_STYLE, nested values
\* included, keeps its initial value.
C7_DefaultStyleReadOnly ==
    StyleValue(styles, nested, DEFAULT_STYLE) =
        StyleValue(<<DefaultStyleDict>>,
                   <<DefaultMargins, DefaultLegendPosition>>, DEFAULT_STYLE)

\* C8: create_custom_style is a shallow key-wise merge: every overridden key
\* holds exactly the supplied value (a nested dict is the caller's dict, with
\* the caller's entries and no others), every other key holds the value of
\* DEFAULT_STYLE, and with no overrides the result equals DEFAULT_STYLE.
C8_ShallowMerge ==
    last.op = "create_custom_style" =>
        LET r == styles[last.ret]
            base == styles[DEFAULT_STYLE]
            kw == last.kwargs
        IN /\ DOMAIN r = DOMAIN base \cup DOMAIN kw
           /\ \A k \in DOMAIN kw : r[k] = kw[k]
           /\ last.given # None => nested[r.margins] = last.given[1]
           /\ \A k \in DOMAIN base \ DOMAIN kw : r[k] = base[k]
           /\ DOMAIN kw = {} => r = base

\* C8 witness: a style was created with a margins override of one entry; its
\* margins are that entry alone and its font size is the default one
C8_Witness ==
    /\ last.op = "create_custom_style"
    /\ "margins" \in DOMAIN last.kwargs
    /\ nested[styles[last.ret].margins] = [top |-> 100]
    /\ styles[last.ret].font_size = styles[DEFAULT_STYLE].font_size
    /\ last.ret # DEFAULT_STYLE

\* C9: apply_style is idempotent: after two (or more) calls in a row with
\* identical arguments the figure is as it was after the first of them.
C9_ApplyIdempotent ==
    (last.op = "apply_style" /\ last.n >= 2) => fig[1] = last.once

\* C9 witness: apply_style ran twice in a row with a height argument on a
\* figure whose layout it set
C9_Witness ==
    /\ last.op = "apply_style"
    /\ last.n = 2
    /\ last.args[3] = Some(400)
    /\ fig[1].height = Some(400)
    /\ fig[1].title.text = "My Plot"

\* C10: in apply_style a height (width) argument that is not None, whatever
\* its integer value, is the height (width) the figure gets, and
\* style['height'] (style['width']) is used only when the argument is None.
C10_OverridePrecedence ==
    last.op = "apply_style" =>
        LET style == styles[last.args[2]]
            height == last.args[3]
            width == last.args[4]
        IN /\ fig[1].height = (IF height # None THEN height ELSE Some(style.height))
           /\ fig[1].width = (IF width # None THEN width ELSE Some(style.width))

\* a call that ended with an exception, whatever its type
Rejected(ret) == ret.raised \notin {"Pending", "None"}
\* a call that returned
Returned(ret) == ret.raised = "None"

\* C11: identify_num_rows and plot_histograms called with a column count
\* <= 0, and plot_hbar called with top_n <= 0, fail with an error and return
\* no row count and no figure.
C11_NonPositiveRejected ==
    /\ (num_rows # Pending /\ desired_num_col <= 0) => Rejected(num_rows)
    /\ (histCall.op = "plot_histograms" /\ histCall.ret # Pending
            /\ histCall.num_cols <= 0) => Rejected(histCall.ret)
    /\ (hbarCall.op = "plot_hbar" /\ hbarCall.ret # Pending
            /\ hbarCall.top_n # None /\ hbarCall.top_n[1] <= 0)
        => Rejected(hbarCall.ret)

\* a dataframe without a column of a numeric dtype
NoNumericColumns(df) ==
    \A i \in DOMAIN df.dtypes : df.dtypes[i] \notin {"int64", "float32", "float64"}

\* C12: plot_histograms fails with an error, and returns no figure, when the
\* dataset has zero rows, and when the dataset has no numeric column and no
\* column list is given.
C12_EmptyOrNonNumericRejected ==
    (histCall.op = "plot_histograms" /\ histCall.ret # Pending) =>
        /\ histCall.df.rows = 0 => Rejected(histCall.ret)
        /\ (NoNumericColumns(histCall.df) /\ histCall.specific_cols = <<>>)
            => Rejected(histCall.ret)

\* C16: in the grid plot_histograms returns for num_cols >= 1 and at least one
\* column, the i-th histogram (i from 0) sits at row i // num_cols + 1 and
\* column i % num_cols + 1, with 1 <= row <= identify_num_rows(columns,
\* num_cols) and 1 <= col <= num_cols, and no two histograms share a cell.
C16_GridPlacement ==
    (histCall.op = "plot_histograms" /\ Returned(histCall.ret)) =>
        LET figure == histCall.ret.value[1]
            d == histCall.num_cols
            item_count == Len(figure.traces)
            rows_needed ==
                identify_num_rows([i \in 1..item_count |-> i], d).value[1]
        IN /\ d >= 1 /\ item_count >= 1
           /\ figure.rows = rows_needed /\ figure.cols = d
           /\ \A k \in 1..item_count :
                /\ figure.traces[k].row = ((k - 1) \div d) + 1
                /\ figure.traces[k].col = ((k - 1) % d) + 1
                /\ 1 <= figure.traces[k].row /\ figure.traces[k].row <= rows_needed
                /\ 1 <= figure.traces[k].col /\ figure.traces[k].col <= d
           /\ \A j, k \in 1..item_count :
                (figure.traces[j].row = figure.traces[k].row
                    /\ figure.traces[j].col = figure.traces[k].col) => j = k

\* a returned grid of two columns whose second row is in use
C16_Witness ==
    /\ histCall.op = "plot_histograms" /\ Returned(histCall.ret)
    /\ histCall.num_cols = 2
    /\ Len(histCall.ret.value[1].traces) >= 3
    /\ histCall.ret.value[1].traces[3].row = 2

\* the rows plot_hbar has to choose its bars from, as (category, bar length):
\* the rows of the dataframe, or one row per category with its frequency
AvailableBars(df, y_col) ==
    IF y_col # None THEN [i \in DOMAIN df |-> <<df[i].cat, df[i].val>>]
    ELSE LET present == {df[i].cat : i \in DOMAIN df}
             k == Cardinality(present)
             table == CHOOSE t \in [1..k -> present] :
                         \A i, j \in 1..k : i # j => t[i] # t[j]
         IN [i \in 1..k |->
                <<table[i], Cardinality({r \in DOMAIN df : df[r].cat = table[i]})>>]

\* C17: plot_hbar returns a figure whose bars are rows of the dataframe (value
\* column given) or the value counts of the category column (none given), in
\* descending order of bar length; with top_n = k >= 1 they are the first
\* min(k, rows) rows of that order and with top_n absent all rows; and the
\* colour array of a requested highlight has one colour per bar.
C17_BarsOrderedAndTruncated ==
    (hbarCall.op = "plot_hbar" /\ hbarCall.ret # Pending
        /\ (hbarCall.top_n = None \/ hbarCall.top_n[1] >= 1)) =>
        /\ Returned(hbarCall.ret)
        /\ LET figure == hbarCall.ret.value[1]
               rows == AvailableBars(hbarCall.df, hbarCall.y_col)
               bars == Len(figure.y)
               wanted == IF hbarCall.top_n = None THEN Len(rows)
                         ELSE min(hbarCall.top_n[1], Len(rows))
           IN /\ bars = wanted /\ Len(figure.x) = bars
              /\ \A i \in 1..bars : i < bars => figure.x[i] >= figure.x[i + 1]
              /\ \E p \in [1..bars -> DOMAIN rows] :
                    /\ \A i, j \in 1..bars : i # j => p[i] # p[j]
                    /\ \A i \in 1..bars : rows[p[i]] = <<figure.y[i], figure.x[i]>>
                    /\ \A r \in DOMAIN rows :
                          (\A i \in 1..bars : p[i] # r) =>
                              \A i \in 1..bars : rows[r][2] <= figure.x[i]
              /\ (hbarCall.highlight_top_n # None \/ hbarCall.highlight_low_n # None)
                    => /\ figure.marker_color.array
                       /\ Len(figure.marker_color.value) = bars

\* the cell of row i and column j of a returned heatmap: its value, its hover
\* text and its annotation
HeatmapCell(figure, i, j) ==
    [z |-> figure.z[i][j], hover |-> figure.text[i][j],
     annotation |-> figure.annotations[(i - 1) * Len(figure.z) + j]]
\* a cell without value, with empty hover text and empty annotation text
Masked(cell) ==
    cell.z = NaN /\ cell.hover = "" /\ cell.annotation.text = ""
\* a cell that carries the correlation of t thousandths to 2 decimals
Carries(cell, t) ==
    /\ cell.z = Some(Round2(t))
    /\ cell.annotation.text = Format2(Round2(t))

\* C13 as stated: in the heatmap of plot_correlation_map the cell of row i
\* and column j is masked exactly when j >= i, and every cell with j < i
\* carries corr(c_i, c_j) to 2 decimals.
C13_MaskedExactlyUpperTriangle ==
    (corrCall.op = "plot_correlation_map" /\ Returned(corrCall.ret)) =>
        LET figure == corrCall.ret.value[1]
            k == corrCall.df.k
        IN \A i, j \in 1..k :
              /\ Masked(HeatmapCell(figure, i, j)) <=> j >= i
              /\ j < i => /\ corr(corrCall.df)[i][j] # NaN
                          /\ Carries(HeatmapCell(figure, i, j),
                                     corr(corrCall.df)[i][j][1])

\* C13, amended: the cell of row i and column j is masked when j >= i; a cell
\* with j < i carries corr(c_i, c_j) to 2 decimals, in the annotation and in
\* the hover text, when that correlation is defined, and is as empty as a
\* masked cell when it is NaN (one of the two columns is constant).
C13_MaskedUpperTriangleOrNaN ==
    (corrCall.op = "plot_correlation_map" /\ corrCall.ret # Pending) =>
        /\ Returned(corrCall.ret)
        /\ LET figure == corrCall.ret.value[1]
               k == corrCall.df.k
           IN /\ Len(figure.z) = k /\ Len(figure.annotations) = k * k
              /\ \A i, j \in 1..k :
                    LET cell == HeatmapCell(figure, i, j)
                        c == corr(corrCall.df)[i][j]
                    IN /\ cell.annotation.x = ColumnName(j)
                       /\ cell.annotation.y = ColumnName(i)
                       /\ Masked(cell) <=> (j >= i \/ c = NaN)
                       /\ (j < i /\ c # NaN) =>
                            /\ Carries(cell, c[1])
                            /\ cell.hover = ColumnName(i) \o " vs "
                                  \o ColumnName(j) \o "<br>Correlation: "
                                  \o Format2(Round2(c[1]))

\* a returned heatmap of two or more columns whose first two correlate with
\* 1.0: the cell below the diagonal shows "1.00", the one above is masked
C13_Witness ==
    /\ corrCall.op = "plot_correlation_map" /\ Returned(corrCall.ret)
    /\ corrCall.df.k >= 2
    /\ corr(corrCall.df)[2][1] = Some(1000)
    /\ HeatmapCell(corrCall.ret.value[1], 2, 1).annotation.text = "1.00"
    /\ Masked(HeatmapCell(corrCall.ret.value[1], 1, 2))

\* C14: the bars of plot_correlation_with_target carry every column but the
\* target exactly once and never the target, each with its correlation with
\* the target, in ascending order of that correlation (bars without a
\* correlation, NaN, have no place in the order).
C14_TargetDroppedAscending ==
    (corrCall.op = "plot_correlation_with_target" /\ corrCall.ret # Pending) =>
        /\ Returned(corrCall.ret)
        /\ LET figure == corrCall.ret.value[1]
               k == corrCall.df.k
               target == corrCall.target_column
               bars == DOMAIN figure.y
           IN /\ \A n \in bars : figure.y[n] # ColumnName(target)
              /\ \A i \in 1..k : i # target =>
                    /\ Cardinality({n \in bars : figure.y[n] = ColumnName(i)}) = 1
                    /\ \A n \in bars : figure.y[n] = ColumnName(i) =>
                          figure.x[n] = corr(corrCall.df)[i][target]
              /\ Len(figure.y) = k - 1 /\ Len(figure.x) = k - 1
              /\ \A a, b \in bars :
                    (a < b /\ figure.x[a] # NaN /\ figure.x[b] # NaN)
                        => figure.x[a][1] <= figure.x[b][1]

\* a returned target plot of two bars with different correlations
C14_Witness ==
    /\ corrCall.op = "plot_correlation_with_target" /\ Returned(corrCall.ret)
    /\ corrCall.df.k = 3
    /\ Len(corrCall.ret.value[1].x) = 2
    /\ corrCall.ret.value[1].x[1] # NaN /\ corrCall.ret.value[1].x[2] # NaN
    /\ corrCall.ret.value[1].x[1][1] < corrCall.ret.value[1].x[2][1]

\* C15: get_color_palette with a known palette type returns, for num_colors =
\* n >= 1, exactly n colours, the i-th (from 0) being palette[i mod
\* len(palette)], and for num_colors None the full palette; with an unknown
\* palette type it raises ValueError.
C15_PaletteCycles ==
    (paletteCall.op = "get_color_palette" /\ paletteCall.ret # Pending) =>
        LET type == paletteCall.palette_type
            n == paletteCall.num_colors
            ret == paletteCall.ret
        IN IF type \notin {"categorical", "sequential", "diverging"}
           THEN ret.raised = "ValueError"
           ELSE LET palette == COLOR_PALETTES[type]
                IN /\ n = None => ret = Return(palette)
                   /\ (n # None /\ n[1] >= 1) =>
                        /\ Returned(ret)
                        /\ Len(ret.value[1]) = n[1]
                        /\ \A i \in 0..(n[1] - 1) :
                              ret.value[1][i + 1]
                                  = palette[(i % Len(palette)) + 1]

\* a returned palette longer than two rounds of the 8 categorical colours,
\* whose 17th colour is the first of the palette again
C15_Witness ==
    /\ paletteCall.op = "get_color_palette" /\ Returned(paletteCall.ret)
    /\ paletteCall.palette_type = "categorical"
    /\ paletteCall.num_colors = Some(17)
    /\ Len(paletteCall.ret.value[1]) = 17
    /\ paletteCall.ret.value[1][17] = "#636EFA"

================================================================
